---- MODULE Spec2Model ----
(***************************************************************************)
(* Netduma R3 integration: the DumaOS JSON-RPC client (client.py) and the  *)
(* polling coordinator (coordinator.py).                                   *)
(*                                                                         *)
(* Two specifications share the module.                                    *)
(*   ClientSpec  one DumaOSClient instance answering _rpc calls, one HTTP  *)
(*               exchange per step, against a server that may answer any   *)
(*               status or drop the connection.                            *)
(*   Spec        the NetdumaDataCoordinator: the first full refresh, then  *)
(*               overlapping presence / traffic / system ticks.            *)
(***************************************************************************)
EXTENDS Integers, Sequences, FiniteSets, TLC

VARIABLES
    \* ---- DumaOSClient instance (client.py:27-33)
    cred,        \* self._username and self._password are both set
    hostAttr,    \* the instance has an attribute _host (see ClientInit)
    base,        \* scheme of self._base
    idc,         \* self._id
    \* ---- the _rpc coroutine in progress
    call,        \* its position and locals
    \* ---- observation of the HTTP traffic of the current call
    trace,       \* requests sent, in order
    postResp,    \* what the RPC POSTs of the call were answered
    lastResp,    \* what the most recent request was answered
    anyResp,     \* some request of the call got an HTTP response
    accepted,    \* the request that ended negotiation in this call, or None
    respBody,    \* the body the call decoded, if it got that far
    outcome,     \* how the call ended
    negotiated,  \* the call whose negotiation first fixed the base, and that base
    \* ---- NetdumaDataCoordinator (coordinator.py:20-39)
    data,        \* self.data, the snapshot
    lastBytes,   \* self._last_bytes, stored explicitly set entries
    lastTs,      \* self._last_ts
    lastError,   \* last_exception, as async_set_update_error leaves it
    lastUpdateSuccess,  \* last_update_success of the base class
    started,     \* ticks fired so far
    scheduled,   \* the three interval listeners are registered
    setup,       \* position of async_config_entry_first_refresh
    tasks,       \* in-flight ticks, one per slot
    mergeArgs,   \* what the merge of the latest step was given, if it did one
    \* ---- overlapping _rpc calls on one client instance (OverlapSpec)
    calls,       \* the _rpc coroutines in flight, one per slot
    sent,        \* the payloads POSTed so far, in order
    \* ---- one application of a pure function of the program (FnSpec)
    inp,         \* the function and its arguments
    ret          \* what the application gave, once it has run

clientVars == <<cred, hostAttr, base, idc, call, trace, postResp, lastResp,
                anyResp, accepted, respBody, outcome, negotiated>>
coordVars  == <<data, lastBytes, lastTs, lastError, lastUpdateSuccess, started,
                scheduled, setup, tasks, mergeArgs>>
overlapVars == <<calls, sent>>
fnVars == <<inp, ret>>
vars == <<cred, hostAttr, base, idc, call, trace, postResp, lastResp,
          anyResp, accepted, respBody, outcome, negotiated,
          data, lastBytes, lastTs, lastError, lastUpdateSuccess, started,
          scheduled, setup, tasks, mergeArgs, calls, sent, inp, ret>>

None == "None"
EmptyMap == << >>

\* Python dict operations on mappings.
Get(d, key, default) == IF key \in DOMAIN d THEN d[key] ELSE default
Update(d, e) ==
    [k \in DOMAIN d \cup DOMAIN e |-> IF k \in DOMAIN e THEN e[k] ELSE d[k]]
Put(d, key, value) ==
    [k \in DOMAIN d \cup {key} |-> IF k = key THEN value ELSE d[k]]
SetDefault(d, key, default) == IF key \in DOMAIN d THEN d ELSE Put(d, key, default)
Max(a, b) == IF a >= b THEN a ELSE b

\* ---- shapes of the coordinator's state, used by both specifications
\* In-flight ticks the model follows at once.
MaxTicks == 2
Slots == 1..MaxTicks
\* self.data before anything was stored in it: None.
NoneData == [none |-> TRUE]
IdleTask == [kind |-> "none", pc |-> "idle", up |-> << >>]
NoError == [kind |-> None, call |-> None]
IdleSetup == [pc |-> "idle", devices |-> << >>, online |-> {}, up |-> << >>,
              down |-> << >>]
\* The arguments of a merge: the values the client calls of the refresh
\* returned (merged: the local of that name in _merge_traffic at its end).
MergeOf(kind, devices, online, merged, sys) ==
    [kind |-> kind, devices |-> devices, online |-> online, merged |-> merged,
     sys |-> sys]
NoMerge == MergeOf("none", << >>, {}, EmptyMap, EmptyMap)
\* An _rpc coroutine that is not running.
IdleRpc == [pc |-> "idle", started |-> 0]
\* ---- shapes of FnSpec: no JSON value, no tree, nothing applied yet
NoValue == [kind |-> "none", decodes |-> "-", id |-> "-", items |-> << >>]
NoTree == [shape |-> "none", key |-> "absent", alist |-> "list", items |-> << >>]
NoInput == [fn |-> "none", raw |-> NoValue, up |-> NoTree, down |-> NoTree]
NoResult == [done |-> FALSE, raised |-> FALSE, value |-> NoValue, traffic |-> EmptyMap]

(***************************************************************************)
(*                         Part 1: DumaOSClient                            *)
(***************************************************************************)

\* Number of _rpc calls a behaviour makes on the instance.
MaxCalls == 2

\* _schemes(): the preference order.
Schemes == <<"https", "http">>

\* The JSON endpoints tried before the form endpoints.
LoginEndpointsJsonFirst ==
    << [enc |-> "json", path |-> "/dumaos/api/login"],
       [enc |-> "json", path |-> "/api/login"],
       [enc |-> "form", path |-> "/login"],
       [enc |-> "form", path |-> "/duma/login"] >>

\* The login endpoints of _ensure_session, in the order of its two loops.
LoginEndpoints ==
    << [enc |-> "form", path |-> "/login"],
       [enc |-> "form", path |-> "/duma/login"],
       [enc |-> "json", path |-> "/dumaos/api/login"],
       [enc |-> "json", path |-> "/api/login"] >>

ProbePath == "/apps/com.netdumasoftware.systeminfo/rpc/"
RpcPath   == "/apps/{app}/rpc/"

\* What the server can do with a request: answer with a status, or the
\* connection fails and aiohttp raises ClientError.
\* Err stands for "no status": the request raised aiohttp.ClientError.
HttpStatuses == {200, 204, 300, 401, 403, 500}
Err == 0
Responses == HttpStatuses \cup {Err}

\* last_url = None, last_status = None (client.py:60-61).
NoUrl == << >>
NoStatus == -1

\* JSON-RPC response objects: a mapping that may carry "error" and "result".
\* NoBody is an empty body (what a 204 has): resp.json() gives None for it.
JsonValues == {"null", "x"}
BodyKeys == {"error", "result"}
Bodies == { [kind |-> "object", obj |-> o] :
              o \in UNION { [D -> JsonValues] : D \in SUBSET BodyKeys } }
NoBody == [kind |-> "empty", obj |-> << >>]
Unread == [kind |-> "unread", obj |-> << >>]
BodiesOf(status) == IF status = 204 THEN {NoBody} ELSE Bodies \cup {NoBody}

Url(scheme, path) == <<scheme, path>>

Request(kind, scheme, path, enc, auth) ==
    [kind |-> kind, scheme |-> scheme, path |-> path, enc |-> enc, auth |-> auth]

IdleCall ==
    [pc |-> "idle", scheme |-> 1, ep |-> 1, attempt |-> 0, last_url |-> NoUrl,
     last_status |-> NoStatus, csrf |-> FALSE, id |-> 0, url |-> None]

NoOutcome == [kind |-> "none", value |-> None, url |-> NoUrl, status |-> NoStatus]
NotAccepted ==
    [req |-> Request("none", None, None, None, FALSE), status |-> NoStatus, at |-> 0]
NotNegotiated == [call |-> 0, base |-> None]
FirstNegotiation(n, callNo, scheme) ==
    IF n = NotNegotiated THEN [call |-> callNo, base |-> scheme] ELSE n
Raised(kind, value, url, status) ==
    [kind |-> kind, value |-> value, url |-> url, status |-> status]
Returned(value) == [kind |-> "ok", value |-> value, url |-> NoUrl, status |-> NoStatus]

\* client.py:139-141 after _ensure_session has returned: url and payload are
\* built from self._base and self._id as they are now, and the first POST is sent.
AtPost(b, id) ==
    [IdleCall EXCEPT !.pc = "post", !.attempt = 0, !.id = id, !.url = b]

\* client.py:79 the test that lets a probe fix the base.
ProbeAccepts(status) == status # 401

\* client.py:107 and :127 the test that lets a login attempt fix the base.
LoginAccepts(status) == status \in {200, 204}

\* client.py:155 resp.raise_for_status(): aiohttp raises for status >= 400.
RaiseForStatus(status) == status >= 400

\* The error test written as data.get("error"): a null error passes as success.
RpcResultTruthyError(body) ==
    IF body.kind = "empty"
    THEN Raised("TypeError", None, NoUrl, NoStatus)
    ELSE IF "error" \in DOMAIN body.obj /\ body.obj["error"] # "null"
         THEN Raised("RpcError", body.obj["error"], NoUrl, NoStatus)
         ELSE Returned(IF "result" \in DOMAIN body.obj THEN body.obj["result"]
                       ELSE "null")

\* client.py:157-159 on the decoded body.
RpcResult(body) ==
    IF body.kind = "empty"
    THEN Raised("TypeError", None, NoUrl, NoStatus)     \* "error" in None
    ELSE IF "error" \in DOMAIN body.obj
         THEN Raised("RpcError", body.obj["error"], NoUrl, NoStatus)
         ELSE Returned(IF "result" \in DOMAIN body.obj THEN body.obj["result"]
                       ELSE "null")

\* DumaOSClient.__init__, client.py:27-33, for every configuration, with the
\* coordinator left as constructed. __init__ binds no attribute _host, though
\* _ensure_session reads self._host (:66, :87): hostAttr = FALSE is the
\* instance as the class builds it, hostAttr = TRUE one on which the attribute
\* holds the configured host, the case _ensure_session is written for.
ClientInit ==
    /\ cred \in BOOLEAN
    /\ hostAttr \in BOOLEAN
    /\ base = "https"
    /\ idc = 0
    /\ call = IdleCall
    /\ trace = <<>>
    /\ postResp = <<>>
    /\ lastResp = NoStatus
    /\ anyResp = FALSE
    /\ accepted = NotAccepted
    /\ respBody = Unread
    /\ outcome = NoOutcome
    /\ negotiated = NotNegotiated
    /\ data = NoneData
    /\ lastBytes = EmptyMap
    /\ lastTs = 0
    /\ lastError = NoError
    /\ lastUpdateSuccess = TRUE
    /\ started = 0
    /\ scheduled = FALSE
    /\ setup = IdleSetup
    /\ tasks = [s \in Slots |-> IdleTask]
    /\ mergeArgs = NoMerge
    /\ calls = [s \in Slots |-> IdleRpc]
    /\ sent = <<>>
    /\ inp = NoInput
    /\ ret = NoResult

\* _rpc, client.py:137-138 up to the first suspension: the id is allocated and
\* _ensure_session entered. Without credentials it returns at once (:57-58);
\* with credentials its first statement reads self._host (:66).
StartCall ==
    /\ call.pc = "idle"
    /\ idc < MaxCalls
    /\ idc' = idc + 1
    /\ trace' = <<>>
    /\ postResp' = <<>>
    /\ lastResp' = NoStatus
    /\ anyResp' = FALSE
    /\ accepted' = NotAccepted
    /\ respBody' = Unread
    /\ IF ~cred
       THEN /\ call' = AtPost(base, idc')
            /\ outcome' = NoOutcome
       ELSE IF ~hostAttr
            THEN /\ call' = IdleCall
                 /\ outcome' = Raised("AttributeError", None, NoUrl, NoStatus)
            ELSE /\ call' = [IdleCall EXCEPT !.pc = "probe", !.scheme = 1]
                 /\ outcome' = NoOutcome
    /\ UNCHANGED <<cred, hostAttr, base, negotiated>>
    /\ UNCHANGED coordVars
    /\ UNCHANGED overlapVars
    /\ UNCHANGED fnVars

\* _ensure_session, client.py:65-83: the probe POST of one scheme is answered.
Probe ==
    /\ call.pc = "probe"
    /\ \E r \in Responses :
        LET scheme == Schemes[call.scheme]
            req == Request("probe", scheme, ProbePath, "json", TRUE)
        IN  /\ trace' = Append(trace, req)
            /\ lastResp' = r
            /\ anyResp' = (anyResp \/ r # Err)
            /\ IF r # Err /\ ProbeAccepts(r)
               THEN /\ base' = scheme
                    /\ call' = AtPost(scheme, idc)
                    /\ accepted' = [req |-> req, status |-> r, at |-> Len(trace')]
                    /\ negotiated' = FirstNegotiation(negotiated, idc, scheme)
               ELSE /\ call' =
                        [call EXCEPT
                           !.last_url = IF r = Err THEN @ ELSE Url(scheme, ProbePath),
                           !.last_status = IF r = Err THEN @ ELSE r,
                           !.pc = IF call.scheme < Len(Schemes) THEN "probe" ELSE "seed",
                           !.scheme = IF call.scheme < Len(Schemes) THEN @ + 1 ELSE 1]
                    /\ UNCHANGED <<base, accepted, negotiated>>
    /\ UNCHANGED <<cred, hostAttr, idc, postResp, respBody, outcome>>
    /\ UNCHANGED coordVars
    /\ UNCHANGED overlapVars
    /\ UNCHANGED fnVars

\* _seed_and_csrf, client.py:38-54, called at :88: the seed GET ends; the
\* token header is sent later iff the GET succeeded and the jar holds a token.
Seed ==
    /\ call.pc = "seed"
    /\ \E r \in {200, Err}, token \in BOOLEAN :
        LET scheme == Schemes[call.scheme]
        IN  /\ trace' = Append(trace, Request("seed", scheme, "/", "none", FALSE))
            /\ lastResp' = r
            /\ anyResp' = (anyResp \/ r # Err)
            /\ call' = [call EXCEPT !.pc = "login", !.ep = 1,
                                    !.csrf = (r # Err /\ token)]
    /\ UNCHANGED <<cred, hostAttr, base, idc, postResp, accepted, respBody, outcome,
                   negotiated>>
    /\ UNCHANGED coordVars
    /\ UNCHANGED overlapVars
    /\ UNCHANGED fnVars

\* _ensure_session, client.py:95-134: one login POST is answered.
Login ==
    /\ call.pc = "login"
    /\ \E r \in Responses :
        LET scheme == Schemes[call.scheme]
            ep == LoginEndpoints[call.ep]
            req == Request("login", scheme, ep.path, ep.enc, FALSE)
            url == IF r = Err THEN call.last_url ELSE Url(scheme, ep.path)
            status == IF r = Err THEN call.last_status ELSE r
        IN  /\ trace' = Append(trace, req)
            /\ lastResp' = r
            /\ anyResp' = (anyResp \/ r # Err)
            /\ IF r # Err /\ LoginAccepts(r)
               THEN /\ base' = scheme
                    /\ call' = AtPost(scheme, idc)
                    /\ accepted' = [req |-> req, status |-> r, at |-> Len(trace')]
                    /\ negotiated' = FirstNegotiation(negotiated, idc, scheme)
                    /\ outcome' = outcome
               ELSE IF call.ep < Len(LoginEndpoints)
               THEN /\ call' = [call EXCEPT !.last_url = url, !.last_status = status,
                                            !.ep = @ + 1]
                    /\ UNCHANGED <<base, accepted, negotiated, outcome>>
               ELSE IF call.scheme < Len(Schemes)
               THEN /\ call' = [call EXCEPT !.last_url = url, !.last_status = status,
                                            !.pc = "seed", !.scheme = @ + 1]
                    /\ UNCHANGED <<base, accepted, negotiated, outcome>>
               ELSE /\ call' = IdleCall                          \* :134
                    /\ outcome' = Raised("AuthFailed", None, url, status)
                    /\ UNCHANGED <<base, accepted, negotiated>>
    /\ UNCHANGED <<cred, hostAttr, idc, postResp, respBody>>
    /\ UNCHANGED coordVars
    /\ UNCHANGED overlapVars
    /\ UNCHANGED fnVars

\* _rpc, client.py:143-159: one RPC POST is answered.
Post ==
    /\ call.pc = "post"
    /\ \E r \in Responses :
        /\ trace' = Append(trace, Request("rpc", call.url, RpcPath, "json",
                                          cred /\ call.attempt = 0))
        /\ postResp' = Append(postResp, r)
        /\ lastResp' = r
        /\ anyResp' = (anyResp \/ r # Err)
        /\ IF r = Err
           THEN /\ call' = IdleCall
                /\ outcome' = Raised("ConnError", None, Url(call.url, RpcPath), NoStatus)
                /\ respBody' = respBody
           ELSE IF r = 401 /\ call.attempt = 0
           THEN /\ call' = [call EXCEPT !.attempt = 1]
                /\ outcome' = outcome
                /\ respBody' = respBody
           ELSE IF RaiseForStatus(r)
           THEN /\ call' = IdleCall
                /\ outcome' = Raised("HttpStatus", None, Url(call.url, RpcPath), r)
                /\ respBody' = respBody
           ELSE /\ call' = IdleCall
                /\ \E body \in BodiesOf(r) :
                      /\ respBody' = body
                      /\ outcome' = RpcResult(body)
    /\ UNCHANGED <<cred, hostAttr, base, idc, accepted, negotiated>>
    /\ UNCHANGED coordVars
    /\ UNCHANGED overlapVars
    /\ UNCHANGED fnVars

ClientNext ==
    \/ StartCall
    \/ Probe
    \/ Seed
    \/ Login
    \/ Post

ClientSpec == ClientInit /\ [][ClientNext]_vars

(***************************************************************************)
(*                  Properties of the client (ClientSpec)                  *)
(***************************************************************************)

Is2xx(status) == status \in 200..299
Finished == call.pc = "idle" /\ outcome.kind # "none"
RpcPosts == SelectSeq(trace, LAMBDA q : q.kind = "rpc")
Logins == SelectSeq(trace, LAMBDA q : q.kind = "login")
Last(seq) == seq[Len(seq)]
IsPrefix(a, b) == Len(a) <= Len(b) /\ \A i \in 1..Len(a) : a[i] = b[i]

\* The failures that carry no more than "the transport did not deliver":
\* ClientResponseError from raise_for_status and ClientError from the POST.
TransportFailures == {"HttpStatus", "ConnError"}

\* C4: with no credentials, once the https endpoint has answered 401 the call
\* has failed, with an error that is not a generic transport failure, without
\* any further request; and no request of the call goes to http.
C4_AuthRequiredAtOnce ==
    (~cred /\ Len(postResp) >= 1 /\ postResp[1] = 401 /\ trace[1].scheme = "https")
        => /\ Finished
           /\ outcome.kind \notin TransportFailures \cup {"ok"}
           /\ Len(trace) = 1
           /\ \A i \in 1..Len(trace) : trace[i].scheme # "http"

LoginOrder ==
    << Request("login", "https", "/login", "form", FALSE),
       Request("login", "https", "/duma/login", "form", FALSE),
       Request("login", "https", "/dumaos/api/login", "json", FALSE),
       Request("login", "https", "/api/login", "json", FALSE),
       Request("login", "http", "/login", "form", FALSE),
       Request("login", "http", "/duma/login", "form", FALSE),
       Request("login", "http", "/dumaos/api/login", "json", FALSE),
       Request("login", "http", "/api/login", "json", FALSE) >>

\* C7: with credentials, login attempts come only after both probes went
\* unaccepted, in the order https then http and within a scheme form /login,
\* form /duma/login, JSON /dumaos/api/login, JSON /api/login; an attempt
\* answered 200 or 204 ends negotiation at once, nothing but the RPC POSTs
\* follows it, and the base is the scheme of that attempt.
C7_LoginOrder ==
    /\ IsPrefix(Logins, LoginOrder)
    /\ \A i \in 1..Len(trace) :
          trace[i].kind = "login"
              => /\ cred
                 /\ i > 2
                 /\ trace[1].kind = "probe" /\ trace[1].scheme = "https"
                 /\ trace[2].kind = "probe" /\ trace[2].scheme = "http"
                 /\ accepted.req.kind # "probe"
    /\ (Len(trace) >= 1 /\ Last(trace).kind = "login" /\ lastResp \in {200, 204})
          => accepted = [req |-> Last(trace), status |-> lastResp, at |-> Len(trace)]
    /\ accepted.req.kind = "login"
          => /\ accepted.status \in {200, 204}
             /\ trace[accepted.at] = accepted.req
             /\ \A i \in 1..(accepted.at - 1) :
                   trace[i].kind = "login" => trace[i] # accepted.req
             /\ \A i \in (accepted.at + 1)..Len(trace) : trace[i].kind = "rpc"
             /\ base = accepted.req.scheme
             /\ call.pc \in {"post", "idle"}

\* C7 witness: every attempt up to the last one was turned down, the JSON
\* login at http /api/login was accepted, and the call then returned.
C7_Witness ==
    /\ accepted.req = LoginOrder[8]
    /\ Len(Logins) = 8
    /\ base = "http"
    /\ outcome.kind = "ok"

C9_RetryOnceThen2xx ==
    /\ Len(RpcPosts) >= 1 => RpcPosts[1].auth = cred
    /\ Len(RpcPosts) >= 2 => (postResp[1] = 401 /\ ~RpcPosts[2].auth)
    /\ (Len(postResp) = 1 /\ postResp[1] = 401) => (call.pc = "post" /\ call.attempt = 1)
    /\ (Len(postResp) = 1 /\ postResp[1] # 401) => call.pc = "idle"
    /\ Len(RpcPosts) <= 2
    /\ (Finished /\ Len(postResp) >= 1 /\ ~Is2xx(Last(postResp)))
          => outcome.kind # "ok"

\* What C10 says of a decoded body: an error field fails the call with that
\* payload, otherwise the result field is returned, null when it is absent.
C10_Expected(body) ==
    IF "error" \in DOMAIN body.obj
    THEN outcome.kind = "RpcError" /\ outcome.value = body.obj["error"]
    ELSE /\ outcome.kind = "ok"
         /\ outcome.value = IF "result" \in DOMAIN body.obj THEN body.obj["result"]
                             ELSE "null"

MaxOverlap == 3

\* The payload of client.py:140 as far as its id goes: startedAs is the
\* value self._id took at :137 in the same call, id the value of self._id
\* when the payload was built.
Payload(startedAs, id) == [started |-> startedAs, id |-> id]

\* One DumaOSClient as constructed (client.py:27-33), for every
\* configuration, with no call in flight and the coordinator idle.
OverlapInit ==
    /\ cred \in BOOLEAN
    /\ hostAttr \in BOOLEAN
    /\ base = "https"
    /\ idc = 0
    /\ call = IdleCall
    /\ trace = <<>>
    /\ postResp = <<>>
    /\ lastResp = NoStatus
    /\ anyResp = FALSE
    /\ accepted = NotAccepted
    /\ respBody = Unread
    /\ outcome = NoOutcome
    /\ negotiated = NotNegotiated
    /\ data = NoneData
    /\ lastBytes = EmptyMap
    /\ lastTs = 0
    /\ lastError = NoError
    /\ lastUpdateSuccess = TRUE
    /\ started = 0
    /\ scheduled = FALSE
    /\ setup = IdleSetup
    /\ tasks = [s \in Slots |-> IdleTask]
    /\ mergeArgs = NoMerge
    /\ calls = [s \in Slots |-> IdleRpc]
    /\ sent = <<>>
    /\ inp = NoInput
    /\ ret = NoResult

\* A tick calls _rpc (client.py:136-144): the coroutine runs to its first
\* suspension. self._id is incremented (:137). Without credentials
\* _ensure_session returns without suspending (:57-58), so the payload is built
\* (:140) and the POST issued (:144) in the same run. With credentials the
\* coroutine reads self._host (:66) and suspends in the first probe (:69).
RpcStart(s) ==
    /\ calls[s].pc = "idle"
    /\ \A t \in 1..(s - 1) : calls[t].pc # "idle"
    /\ idc < MaxOverlap
    /\ idc' = idc + 1
    /\ IF ~cred
       THEN /\ calls' = [calls EXCEPT ![s] = [pc |-> "post", started |-> idc']]
            /\ sent' = Append(sent, Payload(idc', idc'))
       ELSE IF ~hostAttr
            THEN UNCHANGED <<calls, sent>>               \* AttributeError
            ELSE /\ calls' = [calls EXCEPT ![s] = [pc |-> "ensure", started |-> idc']]
                 /\ sent' = sent
    /\ UNCHANGED <<cred, hostAttr, base, call, trace, postResp, lastResp, anyResp,
                   accepted, respBody, outcome, negotiated>>
    /\ UNCHANGED coordVars
    /\ UNCHANGED fnVars

\* _ensure_session returns in a call suspended in it (client.py:79-81,
\* 107-109, 127-129): _rpc goes on to build its payload from self._id as it is
\* now (:139-140) and issues the POST (:144).
EnsureReturns(s) ==
    /\ calls[s].pc = "ensure"
    /\ \E i \in 1..Len(Schemes) : base' = Schemes[i]
    /\ calls' = [calls EXCEPT ![s].pc = "post"]
    /\ sent' = Append(sent, Payload(calls[s].started, idc))
    /\ UNCHANGED <<cred, hostAttr, idc, call, trace, postResp, lastResp, anyResp,
                   accepted, respBody, outcome, negotiated>>
    /\ UNCHANGED coordVars
    /\ UNCHANGED fnVars

\* _ensure_session raises (client.py:134): the call ends without a payload.
EnsureRaises(s) ==
    /\ calls[s].pc = "ensure"
    /\ calls' = [calls EXCEPT ![s] = IdleRpc]
    /\ UNCHANGED <<cred, hostAttr, base, idc, call, trace, postResp, lastResp,
                   anyResp, accepted, respBody, outcome, negotiated, sent>>
    /\ UNCHANGED coordVars
    /\ UNCHANGED fnVars

\* The POST of a call is answered and the call ends (client.py:151-159); a
\* retry (:152-154) repeats the same payload and is not followed.
PostEnds(s) ==
    /\ calls[s].pc = "post"
    /\ calls' = [calls EXCEPT ![s] = IdleRpc]
    /\ UNCHANGED <<cred, hostAttr, base, idc, call, trace, postResp, lastResp,
                   anyResp, accepted, respBody, outcome, negotiated, sent>>
    /\ UNCHANGED coordVars
    /\ UNCHANGED fnVars

OverlapNext ==
    \/ \E s \in Slots : RpcStart(s)
    \/ \E s \in Slots : EnsureReturns(s)
    \/ \E s \in Slots : EnsureRaises(s)
    \/ \E s \in Slots : PostEnds(s)

OverlapSpec == OverlapInit /\ [][OverlapNext]_vars

MaxClock == 3
Times(last_ts) == IF last_ts = 0 THEN {1} ELSE last_ts..MaxClock
\* Ticks fired in one behaviour.
MaxStarts == 2

\* How a client call can fail: the server answered with an error, or the
\* transport did not deliver.
CallErrors == {"RpcError", "ConnError"}
Failure(kind, method) == [kind |-> kind, call |-> method]

\* The client call a tick is suspended in at each position.
CallAt ==
    [pc \in {"online", "up", "down", "sys"} |->
        IF pc = "online" THEN "get_valid_online_interfaces"
        ELSE IF pc = "up" THEN "get_upload_tree"
        ELSE IF pc = "down" THEN "get_download_tree"
        ELSE "get_system_info"]

DevIds == {"1", "2"}
DefaultName == [d \in DevIds |-> IF d = "1" THEN "device_1" ELSE "device_2"]

\* Results of get_all_devices: device dicts; "" is an absent or empty field.
Device(devid, uhost, hostname, interfaces) ==
    [devid |-> devid, uhost |-> uhost, hostname |-> hostname,
     interfaces |-> interfaces]
Listings ==
    { << Device("1", "pc", "host1", <<"aa", "bb">>) >>,
      << Device("1", "", "host1", <<"aa", "bb">>), Device("2", "", "", <<"", "cc">>) >> }

\* Results of get_valid_online_interfaces, as the MACs they carry.
OnlineLists == { {"bb"}, {"cc"} }

\* Results of get_upload_tree / get_download_tree after _parse_tree: the
\* bandwidth allocations of the tree; an entry whose byte count is not a
\* number has bad = TRUE.
Alloc(devid, bytes) == [devid |-> devid, bytes |-> bytes, bad |-> FALSE]
BadAlloc(devid) == [devid |-> devid, bytes |-> 0, bad |-> TRUE]
Trees ==
    { << >>,
      << Alloc("1", 1), Alloc("1", 1), Alloc("2", 1) >> }

\* Results of get_system_info.
SysInfos ==
    { EmptyMap, [uptime |-> "1"], [uptime |-> "2", version |-> "v"] }

SectionKeys == {"devices", "presence", "traffic", "system"}

\* _index_devices, coordinator.py:116-124.
RECURSIVE IndexFrom(_, _, _)
IndexFrom(out, devices, i) ==
    IF i > Len(devices) THEN out
    ELSE LET d == devices[i]
             name == IF d.uhost # "" THEN d.uhost
                     ELSE IF d.hostname # "" THEN d.hostname
                     ELSE DefaultName[d.devid]
             macs == SelectSeq(d.interfaces, LAMBDA m : m # "")
         IN  IndexFrom(Put(out, d.devid, [name |-> name, macs |-> macs]),
                       devices, i + 1)
IndexDevices(devices) == IndexFrom(EmptyMap, devices, 1)

\* Presence that needs every MAC of the device online.
PresenceMapAll(d, online) ==
    LET index == Get(d, "devices", EmptyMap)
    IN  [devid \in DOMAIN index |->
            \A i \in 1..Len(index[devid].macs) : index[devid].macs[i] \in online]

\* _presence_map, coordinator.py:126-131, reading the snapshot d.
PresenceMap(d, online) ==
    LET index == Get(d, "devices", EmptyMap)
    IN  [devid \in DOMAIN index |->
            \E i \in 1..Len(index[devid].macs) : index[devid].macs[i] \in online]

\* One tree added into acc under key with each entry replacing the count
\* before it.
RECURSIVE AccumulateFromOverwrite(_, _, _, _)
AccumulateFromOverwrite(acc, items, key, i) ==
    IF i > Len(items) THEN acc
    ELSE IF items[i].bad THEN acc
    ELSE LET devid == items[i].devid
             cur == Get(acc, devid, [rx_bytes |-> 0, tx_bytes |-> 0])
             new == [cur EXCEPT ![key] = items[i].bytes]
         IN  AccumulateFromOverwrite(Put(acc, devid, new), items, key, i + 1)

\* _traffic_from_trees, coordinator.py:133-150: one tree added into acc under
\* key; an entry that raises ends the tree (except: continue) with what was
\* added so far kept.
RECURSIVE AccumulateFrom(_, _, _, _)
AccumulateFrom(acc, items, key, i) ==
    IF i > Len(items) THEN acc
    ELSE IF items[i].bad THEN acc
    ELSE LET devid == items[i].devid
             cur == Get(acc, devid, [rx_bytes |-> 0, tx_bytes |-> 0])
             new == [cur EXCEPT ![key] = @ + items[i].bytes]
         IN  AccumulateFrom(Put(acc, devid, new), items, key, i + 1)
TrafficFromTrees(up_tree, down_tree) ==
    AccumulateFrom(AccumulateFrom(EmptyMap, down_tree, "rx_bytes", 1),
                   up_tree, "tx_bytes", 1)

\* The snapshot built without its system section.
SnapshotNoSystem(devices, presence, traffic, sys) ==
    [devices |-> devices, presence |-> presence, traffic |-> traffic]

\* _merge_state, coordinator.py:88-93: the dict assigned to self.data.
Snapshot(devices, presence, traffic, sys) ==
    [devices |-> devices, presence |-> presence, traffic |-> traffic,
     system |-> sys]

\* The baseline left as it was.
SeedBaselineStale(last, traffic) == last

\* _merge_state, coordinator.py:96-97, and _merge_traffic, :113: the baseline
\* takes the byte counts of every device of the mapping.
SeedBaseline(last, traffic) ==
    Update(last, [devid \in DOMAIN traffic |->
                    [rx |-> traffic[devid].rx_bytes, tx |-> traffic[devid].tx_bytes]])

\* The presence tick publishing a fresh snapshot: the traffic section emptied.
MergePresencePublishing(d, online) ==
    Snapshot(d["devices"], PresenceMap(d, online), EmptyMap, d["system"])

\* _merge_presence, coordinator.py:99-100.
MergePresence(d, online) ==
    LET d1 == SetDefault(d, "presence", EmptyMap)
    IN  Put(d1, "presence", Update(d1["presence"], PresenceMap(d, online)))

\* The elapsed time without its floor of one.
DtUnfloored(now, last_ts) == now - (IF last_ts = 0 THEN now ELSE last_ts)

\* _merge_traffic, coordinator.py:103-104.
Dt(now, last_ts) == Max(1, now - (IF last_ts = 0 THEN now ELSE last_ts))

\* _merge_traffic, coordinator.py:107-113: the derived mapping with its rates,
\* a rate being the pair <<byte delta, dt>> of the division.
Rated(merged, last, dt) ==
    [devid \in DOMAIN merged |->
        LET t == merged[devid]
            l == Get(last, devid, [rx |-> 0, tx |-> 0])
        IN  [rx_bytes |-> t.rx_bytes, tx_bytes |-> t.tx_bytes,
             rx_rate_bps |-> <<t.rx_bytes - l.rx, dt>>,
             tx_rate_bps |-> <<t.tx_bytes - l.tx, dt>>]]

\* The traffic section replaced by the mapping the tick derived.
MergeTrafficReplacing(d, rated) == Put(d, "traffic", rated)

\* _merge_traffic, coordinator.py:114.
MergeTraffic(d, rated) ==
    LET d1 == SetDefault(d, "traffic", EmptyMap)
    IN  Put(d1, "traffic", Update(d1["traffic"], rated))

\* DeviceRateSensor.native_value, sensor.py:96-99: the rate a sensor of the
\* device shows for a direction, None while the entry or the rate is missing.
RateShown(d, devid, dir_key) ==
    LET t == Get(Get(d, "traffic", EmptyMap), devid, EmptyMap)
    IN  Get(t, dir_key \o "_rate_bps", None)

\* The system section replaced by the response.
MergeSystemReplace(d, sys) == Put(d, "system", sys)

\* _refresh_system, coordinator.py:82.
MergeSystem(d, sys) ==
    LET d1 == SetDefault(d, "system", EmptyMap)
    IN  Put(d1, "system", Update(d1["system"], sys))

\* The except branch also empties the section the tick was refreshing.
SetUpdateErrorBlanking(s, err) ==
    /\ lastError' = err
    /\ lastUpdateSuccess' = FALSE
    /\ mergeArgs' = NoMerge
    /\ data' = Put(data, IF tasks[s].kind = "trees" THEN "traffic"
                         ELSE IF tasks[s].kind = "system" THEN "system"
                         ELSE "presence", EmptyMap)
    /\ UNCHANGED <<lastBytes, lastTs, scheduled>>

\* The except branch of a tick, coordinator.py:67-68, 76-77, 84-85: the error
\* goes to async_set_update_error, which stores it and clears
\* last_update_success; nothing else happens.
SetUpdateError(s, err) ==
    /\ lastError' = err
    /\ lastUpdateSuccess' = FALSE
    /\ mergeArgs' = NoMerge
    /\ UNCHANGED <<data, lastBytes, lastTs, scheduled>>

\* A suspended tick resumes only while no other tick is in flight.
ResumableAlone(s) ==
    /\ tasks[s].pc # "idle"
    /\ \A t \in Slots \ {s} : tasks[t].pc = "idle"

\* A tick suspended in an await resumes when its call ends, whatever the other
\* ticks are doing (coordinator.py:64, 72-73, 81).
Resumable(s) == tasks[s].pc # "idle"

Ended(s) == [tasks EXCEPT ![s] = IdleTask]

\* NetdumaDataCoordinator.__init__, coordinator.py:20-39, with the client left
\* as constructed. self.data is the base class's: None in Home Assistant; the
\* model also takes the empty mapping, the least value _merge_state can read.
Init ==
    /\ cred = FALSE
    /\ hostAttr = FALSE
    /\ base = "https"
    /\ idc = 0
    /\ call = IdleCall
    /\ trace = <<>>
    /\ postResp = <<>>
    /\ lastResp = NoStatus
    /\ anyResp = FALSE
    /\ accepted = NotAccepted
    /\ respBody = Unread
    /\ outcome = NoOutcome
    /\ negotiated = NotNegotiated
    /\ data \in {NoneData, EmptyMap}
    /\ lastBytes = EmptyMap
    /\ lastTs = 0
    /\ lastError = NoError
    /\ lastUpdateSuccess = TRUE
    /\ started = 0
    /\ scheduled = FALSE
    /\ setup = IdleSetup
    /\ tasks = [s \in Slots |-> IdleTask]
    /\ mergeArgs = NoMerge
    /\ calls = [s \in Slots |-> IdleRpc]
    /\ sent = <<>>
    /\ inp = NoInput
    /\ ret = NoResult

\* async_config_entry_first_refresh is entered: _refresh_full awaits
\* get_all_devices (coordinator.py:41-42, 54).
StartSetup ==
    /\ setup.pc = "idle"
    /\ setup' = [setup EXCEPT !.pc = "devices"]
    /\ UNCHANGED <<data, lastBytes, lastTs, lastError, lastUpdateSuccess, started,
                   scheduled, tasks>>
    /\ mergeArgs' = NoMerge
    /\ UNCHANGED clientVars
    /\ UNCHANGED overlapVars
    /\ UNCHANGED fnVars

\* A failed first refresh that goes on to _schedule_tasks.
SetupFailsScheduling ==
    /\ setup.pc \in {"devices", "online", "up", "down", "sys"}
    /\ setup' = [IdleSetup EXCEPT !.pc = "failed"]
    /\ scheduled' = TRUE
    /\ UNCHANGED <<data, lastBytes, lastTs, lastError, lastUpdateSuccess, started,
                   tasks>>
    /\ mergeArgs' = NoMerge
    /\ UNCHANGED clientVars
    /\ UNCHANGED overlapVars
    /\ UNCHANGED fnVars

\* An await of _refresh_full raises: nothing catches it (coordinator.py:54-58).
SetupFails ==
    /\ setup.pc \in {"devices", "online", "up", "down", "sys"}
    /\ setup' = [IdleSetup EXCEPT !.pc = "failed"]
    /\ UNCHANGED <<data, lastBytes, lastTs, lastError, lastUpdateSuccess, started,
                   scheduled, tasks>>
    /\ mergeArgs' = NoMerge
    /\ UNCHANGED clientVars
    /\ UNCHANGED overlapVars
    /\ UNCHANGED fnVars

\* One of the first four awaits of _refresh_full returns (coordinator.py:54-57).
SetupFetch ==
    /\ \/ /\ setup.pc = "devices"
          /\ \E v \in Listings : setup' = [setup EXCEPT !.pc = "online", !.devices = v]
       \/ /\ setup.pc = "online"
          /\ \E v \in OnlineLists : setup' = [setup EXCEPT !.pc = "up", !.online = v]
       \/ /\ setup.pc = "up"
          /\ \E v \in Trees : setup' = [setup EXCEPT !.pc = "down", !.up = v]
       \/ /\ setup.pc = "down"
          /\ \E v \in Trees : setup' = [setup EXCEPT !.pc = "sys", !.down = v]
    /\ UNCHANGED <<data, lastBytes, lastTs, lastError, lastUpdateSuccess, started,
                   scheduled, tasks>>
    /\ mergeArgs' = NoMerge
    /\ UNCHANGED clientVars
    /\ UNCHANGED overlapVars
    /\ UNCHANGED fnVars

\* get_system_info returns: _merge_state, async_set_updated_data, then
\* async_set_update_error(None) and _schedule_tasks (coordinator.py:58-60,
\* 87-97, 44-50). With self.data still None, _presence_map raises.
SetupMerge ==
    /\ setup.pc = "sys"
    /\ \E sys \in SysInfos, now \in Times(lastTs) :
        IF data = NoneData
        THEN /\ setup' = [IdleSetup EXCEPT !.pc = "failed"]
             /\ mergeArgs' = NoMerge
             /\ UNCHANGED <<data, lastBytes, lastTs, lastError, lastUpdateSuccess,
                            scheduled>>
        ELSE LET traffic == TrafficFromTrees(setup.up, setup.down)
             IN  /\ data' = Snapshot(IndexDevices(setup.devices),
                                     PresenceMap(data, setup.online), traffic, sys)
                 /\ lastTs' = now
                 /\ lastBytes' = SeedBaseline(lastBytes, traffic)
                 /\ lastError' = NoError
                 /\ lastUpdateSuccess' = FALSE
                 /\ scheduled' = TRUE
                 /\ setup' = [IdleSetup EXCEPT !.pc = "done"]
                 /\ mergeArgs' = MergeOf("full", setup.devices, setup.online,
                                         traffic, sys)
    /\ UNCHANGED <<started, tasks>>
    /\ UNCHANGED clientVars
    /\ UNCHANGED overlapVars
    /\ UNCHANGED fnVars

\* An interval listener fires (coordinator.py:48-50): the tick runs up to its
\* first await. Slots are interchangeable: the tick takes the first free one.
StartTick(s, kind) ==
    /\ scheduled
    /\ started < MaxStarts
    /\ tasks[s].pc = "idle"
    /\ \A t \in 1..(s - 1) : tasks[t].pc # "idle"
    /\ started' = started + 1
    /\ tasks' = [tasks EXCEPT ![s] =
                   [kind |-> kind,
                    pc |-> IF kind = "presence" THEN "online"
                           ELSE IF kind = "trees" THEN "up" ELSE "sys",
                    up |-> << >>]]
    /\ UNCHANGED <<data, lastBytes, lastTs, lastError, lastUpdateSuccess,
                   scheduled, setup>>
    /\ mergeArgs' = NoMerge
    /\ UNCHANGED clientVars
    /\ UNCHANGED overlapVars
    /\ UNCHANGED fnVars

\* _refresh_presence, coordinator.py:62-68: its call ends.
RefreshPresence(s) ==
    /\ Resumable(s)
    /\ tasks[s].pc = "online"
    /\ \/ \E kind \in CallErrors :
            SetUpdateError(s, Failure(kind, CallAt[tasks[s].pc]))
       \/ \E online \in OnlineLists :
            /\ data' = MergePresence(data, online)
            /\ lastUpdateSuccess' = TRUE
            /\ mergeArgs' = MergeOf("presence", << >>, online, EmptyMap, EmptyMap)
            /\ UNCHANGED <<lastBytes, lastTs, lastError, scheduled>>
    /\ tasks' = Ended(s)
    /\ UNCHANGED <<started, setup>>
    /\ UNCHANGED clientVars
    /\ UNCHANGED overlapVars
    /\ UNCHANGED fnVars

\* _refresh_trees, coordinator.py:70-72, 76-77: get_upload_tree ends.
RefreshTreesUp(s) ==
    /\ Resumable(s)
    /\ tasks[s].pc = "up"
    /\ \/ \E kind \in CallErrors :
            /\ SetUpdateError(s, Failure(kind, CallAt[tasks[s].pc]))
            /\ tasks' = Ended(s)
       \/ \E up \in Trees :
            /\ tasks' = [tasks EXCEPT ![s].pc = "down", ![s].up = up]
            /\ mergeArgs' = NoMerge
            /\ UNCHANGED <<data, lastBytes, lastTs, lastError, lastUpdateSuccess,
                           scheduled>>
    /\ UNCHANGED <<started, setup>>
    /\ UNCHANGED clientVars
    /\ UNCHANGED overlapVars
    /\ UNCHANGED fnVars

\* _refresh_trees, coordinator.py:73-77 with _merge_traffic, :102-114:
\* get_download_tree ends.
RefreshTreesDown(s) ==
    /\ Resumable(s)
    /\ tasks[s].pc = "down"
    /\ \/ \E kind \in CallErrors :
            SetUpdateError(s, Failure(kind, CallAt[tasks[s].pc]))
       \/ \E down \in Trees, now \in Times(lastTs) :
            LET merged == TrafficFromTrees(tasks[s].up, down)
                rated == Rated(merged, lastBytes, Dt(now, lastTs))
            IN  /\ lastTs' = now
                /\ lastBytes' = SeedBaseline(lastBytes, merged)
                /\ data' = MergeTraffic(data, rated)
                /\ lastUpdateSuccess' = TRUE
                /\ mergeArgs' = MergeOf("trees", << >>, {}, rated, EmptyMap)
                /\ UNCHANGED <<lastError, scheduled>>
    /\ tasks' = Ended(s)
    /\ UNCHANGED <<started, setup>>
    /\ UNCHANGED clientVars
    /\ UNCHANGED overlapVars
    /\ UNCHANGED fnVars

\* _refresh_system, coordinator.py:79-85: its call ends.
RefreshSystem(s) ==
    /\ Resumable(s)
    /\ tasks[s].pc = "sys"
    /\ \/ \E kind \in CallErrors :
            SetUpdateError(s, Failure(kind, CallAt[tasks[s].pc]))
       \/ \E sys \in SysInfos :
            /\ data' = MergeSystem(data, sys)
            /\ lastUpdateSuccess' = TRUE
            /\ mergeArgs' = MergeOf("system", << >>, {}, EmptyMap, sys)
            /\ UNCHANGED <<lastBytes, lastTs, lastError, scheduled>>
    /\ tasks' = Ended(s)
    /\ UNCHANGED <<started, setup>>
    /\ UNCHANGED clientVars
    /\ UNCHANGED overlapVars
    /\ UNCHANGED fnVars

TickStep(s) ==
    \/ RefreshPresence(s)
    \/ RefreshTreesUp(s)
    \/ RefreshTreesDown(s)
    \/ RefreshSystem(s)

Next ==
    \/ StartSetup
    \/ SetupFails
    \/ SetupFetch
    \/ SetupMerge
    \/ \E s \in Slots, kind \in {"presence", "trees", "system"} : StartTick(s, kind)
    \/ \E s \in Slots : RefreshPresence(s)
    \/ \E s \in Slots : RefreshTreesUp(s)
    \/ \E s \in Slots : RefreshTreesDown(s)
    \/ \E s \in Slots : RefreshSystem(s)

Spec == Init /\ [][Next]_vars

\* The scheduler runs every tick whose call has ended: each RPC call
\* eventually returns or fails, and the event loop then resumes its tick.
FairSpec == Init /\ [][Next]_vars /\ \A s \in Slots : WF_vars(TickStep(s))

(***************************************************************************)
(*              Properties of the coordinator (Spec, FairSpec)             *)
(***************************************************************************)

Cadences == {"presence", "trees", "system"}
InFlight(s) == tasks[s].pc # "idle"

\* C1: from the end of the first successful full refresh on, whatever ticks
\* have run, succeeded or failed, the snapshot has exactly the keys devices,
\* presence, traffic and system.
C1_FourKeys == setup.pc = "done" => DOMAIN data = SectionKeys

\* C1 witness: after the first refresh a tick has failed, a later one has
\* succeeded, and nothing is in flight.
C1_Witness ==
    /\ setup.pc = "done"
    /\ started = MaxStarts
    /\ lastError # NoError
    /\ lastUpdateSuccess
    /\ \A s \in Slots : ~InFlight(s)

\* C2: every step of a tick other than its successful end leaves the snapshot,
\* the baseline and the timestamp as they were; a step in which a call of the
\* tick fails ends the tick and records the error of that call. This covers
\* the traffic tick between its two calls and its failure in the second.
C2_FailedTickChangesNothing ==
    [][\A s \in Slots :
          (InFlight(s) /\ tasks'[s] # tasks[s]
                       /\ ~(tasks'[s].pc = "idle" /\ lastUpdateSuccess'))
              => /\ data' = data
                 /\ lastBytes' = lastBytes
                 /\ lastTs' = lastTs
                 /\ tasks'[s].pc = "idle"
                       => /\ lastError'.kind \in CallErrors
                          /\ lastError'.call = CallAt[tasks[s].pc]]_vars

\* C2 witness: a traffic tick has failed in get_download_tree, after its
\* get_upload_tree had returned, with a snapshot holding traffic.
C2_Witness ==
    /\ setup.pc = "done"
    /\ lastError.call = "get_download_tree"
    /\ ~lastUpdateSuccess
    /\ DOMAIN data["traffic"] # {}
    /\ \A s \in Slots : ~InFlight(s)

\* Awaits a tick still has to get through at each position.
Rank ==
    [pc \in {"idle", "online", "up", "down", "sys"} |->
        IF pc = "idle" THEN 0 ELSE IF pc = "up" THEN 2 ELSE 1]

\* C3: once the cadences are scheduled, a tick of any cadence can start
\* whenever the budget of ticks and a slot remain, whatever failed before and
\* whatever is in flight; a tick in flight can always take its next step,
\* whatever the other ticks are doing; and each step brings it one await
\* closer to its end, so it ends once each of its calls has ended.
C3_TicksIndependent ==
    /\ [](\A s \in Slots, kind \in Cadences :
            (setup.pc = "done" /\ started < MaxStarts /\ ~InFlight(s)
                /\ \A t \in 1..(s - 1) : InFlight(t))
              => ENABLED StartTick(s, kind))
    /\ [](\A s \in Slots : InFlight(s) => ENABLED TickStep(s))
    /\ [][\A s \in Slots :
            (InFlight(s) /\ tasks'[s] # tasks[s])
              => Rank[tasks'[s].pc] < Rank[tasks[s].pc]]_vars

\* C3 under the scheduler's fairness: every tick in flight ends.
C3_EveryTickEnds == \A s \in Slots : InFlight(s) ~> ~InFlight(s)

\* C3 witness: after a successful setup a tick has failed, and a tick that
\* started no later than that failure is past its first call and still in
\* flight.
C3_Witness ==
    /\ setup.pc = "done"
    /\ lastError # NoError
    /\ ~lastUpdateSuccess
    /\ \E s \in Slots : tasks[s].kind = "trees" /\ tasks[s].pc = "down"

\* The baseline a device has: what was stored for it, else zero.
Baseline(devid) == Get(lastBytes, devid, [rx |-> 0, tx |-> 0])
\* MACs of a device of the index in the online list.
AnyOnline(macs, online) == \E i \in 1..Len(macs) : macs[i] \in online

\* C15: in every successful traffic tick, for every device of the newly
\* derived mapping and each direction, the published rate is (current bytes -
\* baseline) / dt, where dt is the time since the previous traffic merge or
\* full refresh, and exactly 1 when that is at most 1; the delta is published
\* as it is, negative included.
C15_RateIsDeltaOverDt ==
    [][mergeArgs'.kind = "trees"
        => LET elapsed == lastTs' - lastTs
               dt == IF elapsed <= 1 THEN 1 ELSE elapsed
           IN  \A d \in DOMAIN mergeArgs'.merged :
                 /\ d \in DOMAIN data'["traffic"]
                 /\ data'["traffic"][d] = mergeArgs'.merged[d]
                 /\ data'["traffic"][d].rx_rate_bps =
                       << data'["traffic"][d].rx_bytes - Baseline(d).rx, dt >>
                 /\ data'["traffic"][d].tx_rate_bps =
                       << data'["traffic"][d].tx_bytes - Baseline(d).tx, dt >>]_vars

\* C15 witness: a traffic tick two time units after the previous sample has
\* published a negative rate for device 1, whose upload count fell from 2 to 0.
C15_Witness ==
    /\ mergeArgs.kind = "trees"
    /\ "1" \in DOMAIN mergeArgs.merged
    /\ data["traffic"]["1"].tx_rate_bps = << -2, 2 >>
    /\ data["traffic"]["1"].rx_rate_bps = << 0, 2 >>

\* C16: after the first full refresh and after every traffic merge, every
\* device of the traffic section has as its baseline its rx_bytes and tx_bytes
\* of the snapshot; and a device with no stored baseline gets, on its first
\* observation, the rate bytes / dt.
C16_BaselineIsSnapshot ==
    /\ [](setup.pc = "done"
            => \A d \in DOMAIN data["traffic"] :
                  /\ d \in DOMAIN lastBytes
                  /\ lastBytes[d] = [rx |-> data["traffic"][d].rx_bytes,
                                     tx |-> data["traffic"][d].tx_bytes])
    /\ [][mergeArgs'.kind = "trees"
            => \A d \in DOMAIN mergeArgs'.merged \ DOMAIN lastBytes :
                  /\ data'["traffic"][d].rx_rate_bps[1] = data'["traffic"][d].rx_bytes
                  /\ data'["traffic"][d].tx_rate_bps[1] = data'["traffic"][d].tx_bytes]_vars

\* C16 witness: device 2, absent from the first refresh, was first observed by
\* a traffic tick with one byte each way: its rates are 1 / dt and its
\* baseline is now its byte counts.
C16_Witness ==
    /\ mergeArgs.kind = "trees"
    /\ "2" \in DOMAIN mergeArgs.merged
    /\ data["traffic"]["2"].rx_rate_bps = << 1, 2 >>
    /\ data["traffic"]["2"].tx_rate_bps = << 1, 2 >>
    /\ lastBytes["2"] = [rx |-> 1, tx |-> 1]

\* C17: after every successful presence tick, every device of the index has a
\* presence, true iff one of its MACs is in the online list the tick fetched;
\* so a device that was present and has no MAC online now becomes false.
C17_PresenceIsAnyMacOnline ==
    [][mergeArgs'.kind = "presence"
        => /\ data'["devices"] = data["devices"]
           /\ \A d \in DOMAIN data'["devices"] :
                 /\ d \in DOMAIN data'["presence"]
                 /\ data'["presence"][d]
                       = AnyOnline(data'["devices"][d].macs, mergeArgs'.online)]_vars

\* C17 witness: second presence tick; device 1 (MACs aa, bb), present through
\* bb after the first, is now false, and device 2 is true through cc.
C17_Witness ==
    /\ mergeArgs.kind = "presence"
    /\ mergeArgs.online = {"cc"}
    /\ started = 2
    /\ lastUpdateSuccess
    /\ lastError = NoError
    /\ DOMAIN data["presence"] = {"1", "2"}
    /\ data["presence"]["1"] = FALSE
    /\ data["presence"]["2"] = TRUE

\* C18: in every successful system tick every field of the response takes the
\* new value and every field the section had that the response lacks keeps
\* its value; the section is never replaced or emptied.
C18_SystemMerged ==
    [][mergeArgs'.kind = "system"
        => LET sys == mergeArgs'.sys
           IN  /\ DOMAIN data'["system"] = DOMAIN data["system"] \cup DOMAIN sys
               /\ \A k \in DOMAIN sys : data'["system"][k] = sys[k]
               /\ \A k \in DOMAIN data["system"] \ DOMAIN sys :
                     data'["system"][k] = data["system"][k]]_vars

\* C18 witness: a system tick answered with uptime alone has left the version
\* of the first refresh in the section and taken the new uptime.
C18_Witness ==
    /\ mergeArgs.kind = "system"
    /\ DOMAIN mergeArgs.sys = {"uptime"}
    /\ DOMAIN data["system"] = {"uptime", "version"}
    /\ data["system"]["uptime"] = "1"
    /\ data["system"]["version"] = "v"

\* C19: a first refresh that fails publishes nothing, leaves the baseline and
\* the timestamp as constructed, schedules nothing, and no tick ever runs; the
\* failure is final.
C19_FailedSetupLeavesNothing ==
    /\ [](setup.pc = "failed"
            => /\ data \in {NoneData, EmptyMap}
               /\ DOMAIN lastBytes = {}
               /\ lastTs = 0
               /\ ~scheduled
               /\ started = 0
               /\ \A s \in Slots : ~InFlight(s)
               /\ \A s \in Slots, kind \in Cadences : ~ENABLED StartTick(s, kind))
    /\ [][setup'.pc = "failed"
            => /\ data' = data
               /\ lastBytes' = lastBytes
               /\ lastTs' = lastTs]_vars
    /\ [][setup.pc = "failed" => setup'.pc = "failed"]_vars

\* C19 witness: the first refresh has failed.
C19_Witness ==
    /\ setup.pc = "failed"
    /\ data = EmptyMap

\* C20: after a successful full refresh the presence section has the keys of
\* the devices section of that refresh, each true iff one of the newly listed
\* MACs of the device is in the online list of the refresh.
C20_PresenceFromNewIndex ==
    mergeArgs.kind = "full"
        => /\ DOMAIN data["presence"] = DOMAIN data["devices"]
           /\ \A d \in DOMAIN data["devices"] :
                 data["presence"][d]
                     = AnyOnline(data["devices"][d].macs, mergeArgs.online)

\* C21: every cadence refreshes its own section only. A successful presence
\* tick leaves devices, traffic, system, the baseline and the timestamp as they
\* were; a successful traffic tick leaves devices, presence and system; a
\* successful system tick leaves devices, presence, traffic, the baseline and
\* the timestamp; and once the first refresh is done no step of any tick,
\* failed or not, overlapping others or not, changes the devices section.
C21_OwnSectionOnly ==
    /\ [][mergeArgs'.kind = "presence"
            => /\ data'["devices"] = data["devices"]
               /\ data'["traffic"] = data["traffic"]
               /\ data'["system"] = data["system"]
               /\ lastBytes' = lastBytes
               /\ lastTs' = lastTs]_vars
    /\ [][mergeArgs'.kind = "trees"
            => /\ data'["devices"] = data["devices"]
               /\ data'["presence"] = data["presence"]
               /\ data'["system"] = data["system"]]_vars
    /\ [][mergeArgs'.kind = "system"
            => /\ data'["devices"] = data["devices"]
               /\ data'["presence"] = data["presence"]
               /\ data'["traffic"] = data["traffic"]
               /\ lastBytes' = lastBytes
               /\ lastTs' = lastTs]_vars
    /\ [][setup.pc = "done"
            => /\ DOMAIN data' = DOMAIN data
               /\ data'["devices"] = data["devices"]]_vars

\* C21 witness: a presence tick has ended while a traffic tick started before
\* it is still waiting for its second tree; the traffic and system sections,
\* the baseline and the timestamp of the first refresh are all in place.
C21_Witness ==
    /\ mergeArgs.kind = "presence"
    /\ \E s \in Slots : InFlight(s) /\ tasks[s].pc = "down"
    /\ DOMAIN data["devices"] # {}
    /\ DOMAIN data["presence"] # {}
    /\ DOMAIN data["traffic"] = {"1", "2"}
    /\ DOMAIN data["system"] = {"uptime", "version"}
    /\ DOMAIN lastBytes = {"1", "2"}
    /\ lastTs = 1

\* C22: a successful traffic tick leaves every device id that the mapping it
\* derived lacks with its traffic entry, the rates its sensors show and its
\* baseline exactly as before, while the timestamp is still set to the reading
\* of the tick; and once the first refresh is done the traffic section never
\* loses a key.
C22_AbsentDeviceKeepsEntry ==
    /\ [][mergeArgs'.kind = "trees"
            => /\ lastTs' >= lastTs
               /\ lastTs' >= 1
               /\ \A d \in DOMAIN data["traffic"] \ DOMAIN mergeArgs'.merged :
                     /\ d \in DOMAIN data'["traffic"]
                     /\ data'["traffic"][d] = data["traffic"][d]
                     /\ \A dir_key \in {"rx", "tx"} :
                           dir_key \o "_rate_bps" \in DOMAIN data["traffic"][d]
                               => RateShown(data', d, dir_key)
                                      = RateShown(data, d, dir_key)
                     /\ d \in DOMAIN lastBytes' <=> d \in DOMAIN lastBytes
                     /\ d \in DOMAIN lastBytes
                           => lastBytes'[d] = lastBytes[d]]_vars
    /\ [][setup.pc = "done"
            => DOMAIN data["traffic"] \subseteq DOMAIN data'["traffic"]]_vars

\* C22 witness: device 1, unseen by the first refresh at time 1, got the rate
\* 2 bytes over 1 second from the traffic tick at time 2; the traffic tick at
\* time 3 derived an empty mapping, and the device still shows that rate and
\* has that baseline.
C22_Witness ==
    /\ mergeArgs.kind = "trees"
    /\ DOMAIN mergeArgs.merged = {}
    /\ lastTs = 3
    /\ "1" \in DOMAIN data["traffic"]
    /\ "rx_rate_bps" \in DOMAIN data["traffic"]["1"]
    /\ RateShown(data, "1", "rx") = << 2, 1 >>
    /\ RateShown(data, "1", "tx") = << 2, 1 >>
    /\ lastBytes["1"] = [rx |-> 2, tx |-> 2]

(***************************************************************************)
(*            Part 3: the pure functions of the program (FnSpec)           *)
(***************************************************************************)

\* Longest list among the inputs.
MaxItems == 2

\* ---- JSON values as _parse_tree tells them apart (client.py:195-206).
\* A str is told by what json.loads makes of it; id names a mapping (the
\* mapping itself, or the object a str decodes to) so that "returned
\* unchanged" can be told from "some mapping".
Decodings == {"invalid", "object", "number", "list", "string"}
Leaf(kind, decodes, id) == [kind |-> kind, decodes |-> decodes, id |-> id]
Leaves ==
    { Leaf("null", "-", "-"), Leaf("num", "-", "-"), Leaf("map", "-", "m1"),
      Leaf("list", "-", "-") }
    \cup { Leaf("str", d, IF d = "object" THEN "m2" ELSE "-") : d \in Decodings }
Lift(leaf) ==
    [kind |-> leaf.kind, decodes |-> leaf.decodes, id |-> leaf.id, items |-> << >>]
ListOf(items) == [kind |-> "list", decodes |-> "-", id |-> "-", items |-> items]
SeqsUpTo(S, n) == UNION { [1..k -> S] : k \in 0..n }
RawResults ==
    { Lift(l) : l \in { x \in Leaves : x.kind # "list" } }
    \cup { ListOf(items) : items \in SeqsUpTo(Leaves, MaxItems) }

\* The empty mapping {} of client.py:203 and :206.
EmptyObject == [kind |-> "map", decodes |-> "-", id |-> "empty", items |-> << >>]

\* json.loads(inner) of client.py:201 on a str that decodes.
JsonLoads(inner) ==
    IF inner.decodes = "object"
    THEN [kind |-> "map", decodes |-> "-", id |-> inner.id, items |-> << >>]
    ELSE IF inner.decodes = "number"
    THEN [kind |-> "num", decodes |-> "-", id |-> "-", items |-> << >>]
    ELSE IF inner.decodes = "list"
    THEN [kind |-> "list", decodes |-> "-", id |-> "-", items |-> << >>]
    ELSE [kind |-> "str", decodes |-> "-", id |-> "-", items |-> << >>]

\* _parse_tree, client.py:192-206.
ParseTree(result_any) ==
    LET inner == IF result_any.kind = "list" /\ Len(result_any.items) > 0
                 THEN Lift(result_any.items[1])
                 ELSE result_any
    IN  IF inner.kind = "str"
        THEN IF inner.decodes = "invalid" THEN EmptyObject ELSE JsonLoads(inner)
        ELSE IF inner.kind = "map" THEN inner
        ELSE EmptyObject

ParseInputs ==
    { [fn |-> "_parse_tree", raw |-> v, up |-> NoTree, down |-> NoTree] :
        v \in RawResults }

\* ---- trees as _traffic_from_trees receives them (coordinator.py:136-147).
\* shape: the tree is a mapping or not (a number, a list); key: the spelling
\* under which AutoAlloc holds the allocations, if it does; alist: what is
\* held there, a list of entries or something else that is truthy.
ByteCounts == {1, 2}
GoodEntries == { Alloc(d, b) : d \in DevIds, b \in ByteCounts }
TreeEntries == GoodEntries \cup { BadAlloc("1") }
Tree(shape, key, alist, items) ==
    [shape |-> shape, key |-> key, alist |-> alist, items |-> items]
Spellings == {"bandwidth_allocations", "BandwidthAllocations"}
TreeShapes ==
    { Tree("map", k, "list", items) :
        k \in Spellings, items \in SeqsUpTo(TreeEntries, MaxItems) }
    \cup { Tree("map", k, a, << >>) : k \in Spellings, a \in {"number", "mapping"} }
    \cup { Tree("map", "absent", "list", << >>), Tree("notmap", "absent", "list", << >>) }

\* coordinator.py:138-143: the entries the loop of one tree gets to walk.
\* tree.get on a non-mapping raises, and so does iterating a number or calling
\* item.get on the keys of a mapping: the except clause then leaves the tree.
Entries(tree) ==
    IF tree.shape = "map" /\ tree.key \in Spellings /\ tree.alist = "list"
    THEN tree.items
    ELSE << >>

\* _traffic_from_trees, coordinator.py:133-150, on trees of any shape.
DeriveTraffic(up_tree, down_tree) ==
    TrafficFromTrees(Entries(up_tree), Entries(down_tree))

TrafficInputs ==
    { [fn |-> "_traffic_from_trees", raw |-> NoValue, up |-> u, down |-> d] :
        u \in TreeShapes, d \in TreeShapes }

FnInputs == ParseInputs \cup TrafficInputs

\* One function of the program is about to be applied to one input.
FnInit ==
    /\ cred = FALSE
    /\ hostAttr = FALSE
    /\ base = "https"
    /\ idc = 0
    /\ call = IdleCall
    /\ trace = <<>>
    /\ postResp = <<>>
    /\ lastResp = NoStatus
    /\ anyResp = FALSE
    /\ accepted = NotAccepted
    /\ respBody = Unread
    /\ outcome = NoOutcome
    /\ negotiated = NotNegotiated
    /\ data = NoneData
    /\ lastBytes = EmptyMap
    /\ lastTs = 0
    /\ lastError = NoError
    /\ lastUpdateSuccess = TRUE
    /\ started = 0
    /\ scheduled = FALSE
    /\ setup = IdleSetup
    /\ tasks = [s \in Slots |-> IdleTask]
    /\ mergeArgs = NoMerge
    /\ calls = [s \in Slots |-> IdleRpc]
    /\ sent = <<>>
    /\ inp \in FnInputs
    /\ ret = NoResult

\* _parse_tree is applied (client.py:192-206); none of its statements raises.
ApplyParseTree ==
    /\ inp.fn = "_parse_tree"
    /\ ~ret.done
    /\ ret' = [NoResult EXCEPT !.done = TRUE, !.value = ParseTree(inp.raw)]
    /\ UNCHANGED inp
    /\ UNCHANGED <<clientVars, coordVars, overlapVars>>

\* _traffic_from_trees is applied (coordinator.py:133-150); what raises inside
\* it is caught inside it.
ApplyTrafficFromTrees ==
    /\ inp.fn = "_traffic_from_trees"
    /\ ~ret.done
    /\ ret' = [NoResult EXCEPT !.done = TRUE,
                               !.traffic = DeriveTraffic(inp.up, inp.down)]
    /\ UNCHANGED inp
    /\ UNCHANGED <<clientVars, coordVars, overlapVars>>

FnNext ==
    \/ ApplyParseTree
    \/ ApplyTrafficFromTrees

FnSpec == FnInit /\ [][FnNext]_vars

(***************************************************************************)
(*                 Properties of the pure functions (FnSpec)               *)
(***************************************************************************)

\* The value _parse_tree looks at: the first element of a non-empty list,
\* else the result itself.
Candidate(raw) ==
    IF raw.kind = "list" /\ Len(raw.items) > 0 THEN Lift(raw.items[1]) ELSE raw

\* C12: _parse_tree returns without raising for every input shape, and what
\* it returns is a mapping: the object a string decodes to, the mapping itself
\* unchanged, or the empty mapping.
C12_ParseTreeTotalMapping ==
    (ret.done /\ inp.fn = "_parse_tree")
        => /\ ~ret.raised
           /\ ret.value.kind = "map"
           /\ ret.value.id =
                IF Candidate(inp.raw).kind = "map" THEN Candidate(inp.raw).id
                ELSE IF Candidate(inp.raw).kind = "str"
                        /\ Candidate(inp.raw).decodes = "object"
                     THEN Candidate(inp.raw).id
                     ELSE "empty"

\* The byte counts of the entries of items that match devid, added up.
RECURSIVE SumBytes(_, _, _)
SumBytes(items, devid, i) ==
    IF i > Len(items) THEN 0
    ELSE (IF items[i].devid = devid THEN items[i].bytes ELSE 0)
         + SumBytes(items, devid, i + 1)
Matches(items, devid) == \E i \in 1..Len(items) : items[i].devid = devid
WellFormed(tree) ==
    /\ tree.shape = "map"
    /\ tree.alist = "list"
    /\ \A i \in 1..Len(tree.items) : ~tree.items[i].bad
Malformed(tree) == ~WellFormed(tree)

\* What a pair of entry lists gives when every entry counts.
IsSumOf(traffic, up_items, down_items) ==
    /\ DOMAIN traffic =
          { d \in DevIds : Matches(up_items, d) \/ Matches(down_items, d) }
    /\ \A d \in DOMAIN traffic :
          /\ traffic[d].rx_bytes = SumBytes(down_items, d, 1)
          /\ traffic[d].tx_bytes = SumBytes(up_items, d, 1)

\* C13: for well-formed trees, under either spelling of the allocations key,
\* rx_bytes of a device is the sum of the byte counts of the download entries
\* that match it and tx_bytes the sum over the upload entries; a device is in
\* the result iff an entry of either tree matches it.
C13_TrafficIsSum ==
    (ret.done /\ inp.fn = "_traffic_from_trees"
              /\ WellFormed(inp.up) /\ WellFormed(inp.down))
        => IsSumOf(ret.traffic, inp.up.items, inp.down.items)

\* C13 witness: two download entries for device 1 under one spelling and an
\* upload entry for it under the other gave rx_bytes 3 and tx_bytes 2.
C13_Witness ==
    /\ ret.done
    /\ inp.fn = "_traffic_from_trees"
    /\ inp.down = Tree("map", "BandwidthAllocations", "list",
                       << Alloc("1", 1), Alloc("1", 2) >>)
    /\ inp.up = Tree("map", "bandwidth_allocations", "list", << Alloc("1", 2) >>)
    /\ DOMAIN ret.traffic = {"1"}
    /\ ret.traffic["1"] = [rx_bytes |-> 3, tx_bytes |-> 2]

\* C14: a tree that is missing or malformed anywhere contributes nothing to
\* its direction, the entries before a malformed one included, and the other
\* tree contributes what it would on its own.
C14_MalformedTreeIsZero ==
    (ret.done /\ inp.fn = "_traffic_from_trees"
              /\ (Malformed(inp.up) \/ Malformed(inp.down)))
        => IsSumOf(ret.traffic,
                   IF Malformed(inp.up) THEN << >> ELSE inp.up.items,
                   IF Malformed(inp.down) THEN << >> ELSE inp.down.items)

====
